---- MODULE Spec2Model ----
(***************************************************************************)
(* The link shortener of src/app.py: a Flask application over two SQLite   *)
(* tables (links, clicks) with an APScheduler job that purges expired      *)
(* links.  The state is the two tables, the AUTOINCREMENT counters, the    *)
(* wall clock, the position of the process in its start-up sequence, the   *)
(* outcome of the operation that completed last and, as a history          *)
(* variable, the click counts of the stored links at and since creation.   *)
(* Each handler is one step: its statements run in one transaction.        *)
(*                                                                         *)
(* Strings that the code compares or parses (the expiry text of the form,  *)
(* SQLite's datetime('now')) are sequences of character codes, with one    *)
(* digit per calendar field, so that SQLite's text comparison and Python's *)
(* strptime are computed the way the code computes them.                   *)
(***************************************************************************)
EXTENDS Integers, Sequences, FiniteSets, TLC

\* ---------------------------------------------------------------- bounds
MaxTime == 2        \* the clock stops after this many ticks
SecPerMin == 1      \* clock ticks in one minute (scaled-down calendar)
MinPerDay == 2      \* minutes in one day (scaled-down calendar)
MaxLinks == 2       \* at most this many rows are ever inserted into links
MaxClicks == 2      \* at most this many rows are ever inserted into clicks

TicksPerDay == SecPerMin * MinPerDay
Days == 0 .. (MaxTime \div TicksPerDay)
Minutes == 0 .. (MinPerDay - 1)

\* ------------------------------------------------------------ characters
CharSpace == 32     \* ' ' between date and time in SQLite's datetime()
CharDigit0 == 48    \* '0'
CharColon == 58     \* ':' between minutes and seconds in SQLite's datetime()
CharT == 84         \* 'T' of the form's '%Y-%m-%dT%H:%M'
CharX == 120        \* 'x', a text that is no timestamp

Digit(n) == CharDigit0 + n

\* the form's datetime-local text 'YYYY-MM-DDTHH:MM' for day d, minute m
IsoMinute(d, m) == <<Digit(d), CharT, Digit(m)>>

\* the text SQLite's datetime('now') yields at UTC time t:
\* 'YYYY-MM-DD HH:MM:SS'
SqliteDatetime(t) ==
    <<Digit(t \div TicksPerDay), CharSpace,
      Digit((t \div SecPerMin) % MinPerDay), CharColon,
      Digit(t % SecPerMin)>>

\* SQLite's BINARY collation on two TEXT values (memcmp, shorter prefix first)
RECURSIVE StrLess(_, _)
StrLess(a, b) ==
    IF a = <<>> THEN b # <<>>
    ELSE IF b = <<>> THEN FALSE
    ELSE IF a[1] # b[1] THEN a[1] < b[1]
    ELSE StrLess(Tail(a), Tail(b))

\* datetime.strptime(s, '%Y-%m-%dT%H:%M'): the instant in clock ticks, or
\* ValueError for a text that does not match the pattern
ValueError == -1
Strptime(s) ==
    IF /\ Len(s) = 3
       /\ s[2] = CharT
       /\ s[1] \in Digit(0) .. Digit(9)
       /\ s[3] \in Digit(0) .. Digit(MinPerDay - 1)
    THEN ((s[1] - CharDigit0) * MinPerDay + (s[3] - CharDigit0)) * SecPerMin
    ELSE ValueError

\* ---------------------------------------------------------------- inputs
Urls == {"https://example.com", "https://example.org"}
\* path segments a client can request; two of the 62^6 six-character codes
ShortCodes == {"Ab3dE9", "Zz0yX1"}
\* what generate_short_code() can return: any of the codes
generate_short_code == ShortCodes
Ips == {"10.0.0.1"}
UserAgent == "curl"
EmptyStr == <<>>
Malformed == <<CharX>>
\* what a client can put in the form's expiry_date field
ExpiryInputs ==
    {EmptyStr, Malformed} \cup {IsoMinute(d, m) : d \in Days, m \in Minutes}

VARIABLES
    pc,               \* position of the process: "import", "main", "serving", "stopped"
    scheduler_running, \* the BackgroundScheduler has been started and not shut down
    tables_exist,      \* init_db has created links and clicks
    utc,              \* the wall clock, in ticks; the server's local time is
                      \* taken to be UTC, so datetime.now() and SQLite's
                      \* datetime('now') read the same clock
    links,            \* rows of table links
    clicks,           \* rows of table clicks
    sqlite_sequence,  \* AUTOINCREMENT counters of the two tables
    last,             \* the operation completed last and its outcome
    hist              \* history of the stored links: per link id, the number of
                      \* click rows of its code that existed when it was
                      \* created, and the number of redirect requests made to
                      \* its code since

vars == <<pc, scheduler_running, tables_exist, utc, links, clicks,
          sqlite_sequence, last, hist>>

\* datetime.now()
LocalNow == utc

Outcome(op, status, location, short_url, listing, link, cl) ==
    [op |-> op, status |-> status, location |-> location,
     short_url |-> short_url, listing |-> listing, link |-> link,
     clicks |-> cl]

Plain(op, status) == Outcome(op, status, "", "", {}, {}, {})

Init ==
    /\ pc = "import"
    /\ scheduler_running = FALSE
    /\ tables_exist = FALSE
    /\ utc = 0
    /\ links = {}
    /\ clicks = {}
    /\ sqlite_sequence = [links |-> 0, clicks |-> 0]
    /\ last = Plain("none", "")
    /\ hist = <<>>

\* time passes
Tick ==
    /\ utc < MaxTime
    /\ utc' = utc + 1
    /\ UNCHANGED <<pc, scheduler_running, tables_exist, links, clicks,
                   sqlite_sequence, last, hist>>

\* module level: scheduler.add_job(...); scheduler.start()
scheduler_start ==
    /\ pc = "import"
    /\ pc' = "main"
    /\ scheduler_running' = TRUE
    /\ last' = Plain("scheduler_start", "done")
    /\ UNCHANGED <<tables_exist, utc, links, clicks, sqlite_sequence, hist>>

\* __main__: init_db(), then app.run()
init_db ==
    /\ pc = "main"
    /\ pc' = "serving"
    /\ tables_exist' = TRUE
    /\ last' = Plain("init_db", "done")
    /\ UNCHANGED <<scheduler_running, utc, links, clicks, sqlite_sequence,
                   hist>>

\* __main__: finally: scheduler.shutdown()
scheduler_shutdown ==
    /\ pc = "serving"
    /\ pc' = "stopped"
    /\ scheduler_running' = FALSE
    /\ last' = Plain("shutdown", "done")
    /\ UNCHANGED <<tables_exist, utc, links, clicks, sqlite_sequence, hist>>

\* ------------------------------------------------------------ the store
\* a variant of the next definition: the column without its UNIQUE constraint
UniqueNotEnforced(L, code) == FALSE

\* links.short_code TEXT NOT NULL UNIQUE: an INSERT of code into L is rejected
UniqueViolation(L, code) == \E l \in L : l.short_code = code

\* a variant of the next definition: INSERT OR REPLACE keyed on original_url
InsertOrReplaceByUrl(L, row) ==
    {l \in L : l.original_url # row.original_url} \cup {row}

\* INSERT INTO links ... of one row.  A row carries id, original_url,
\* short_code and expiry_date; created_at (and clicked_at of a click), which
\* the store stamps and which only orders the listings, is left out
InsertLink(L, row) == L \cup {row}

\* a variant of the next definition: INSERT OR REPLACE keyed on short_code
InsertOrReplaceByCode(C, row) ==
    {c \in C : c.short_code # row.short_code} \cup {row}

\* INSERT INTO clicks ... of one row
InsertClick(C, row) == C \cup {row}

\* a variant of the next definition: PRAGMA foreign_keys = ON
ForeignKeysEnforced == TRUE

\* sqlite3.connect() leaves PRAGMA foreign_keys at its default, off, so the
\* FOREIGN KEY clause of clicks is not enforced
ForeignKeys == FALSE

\* SELECT ... FROM links WHERE short_code = ?
SelectByCode(L, code) == {l \in L : l.short_code = code}

\* DELETE FROM links WHERE expiry_date < datetime("now"): the rows that stay.
\* expiry_date holds the form's text (never NULL: the handler always binds a
\* string, and a text that is no number keeps its type under the column's
\* NUMERIC affinity); "now" names no column, so SQLite reads it as the string
\* 'now' and datetime("now") is the current UTC time as text: the comparison
\* is a text comparison
DeleteExpired(L, now) ==
    {l \in L : ~ StrLess(l.expiry_date, SqliteDatetime(now))}

\* a variant of the next definition: JOIN instead of LEFT JOIN
InnerJoin(L, C) ==
    {[l |-> l, c |-> {c}] : <<l, c>> \in
        {p \in L \X C : p[1].short_code = p[2].short_code}}

\* links l LEFT JOIN clicks c ON l.short_code = c.short_code; c is a set of at
\* most one click row, empty for the NULL-extended row of an unmatched link
LeftJoin(L, C) ==
    {[l |-> l, c |-> {c}] : <<l, c>> \in
        {p \in L \X C : p[1].short_code = p[2].short_code}}
    \cup
    {[l |-> l, c |-> {}] : l \in
        {x \in L : \A c \in C : c.short_code # x.short_code}}

\* a variant of the next definition: COUNT(*
CountStar(J, g) == Cardinality({r \in J : r.l.id = g})

\* COUNT(c.id) over the group of link id g: rows of the group whose c.id is
\* not NULL
CountClickIds(J, g) == Cardinality({r \in J : r.l.id = g /\ r.c # {}})

\* SELECT l.*, COUNT(c.id) AS click_count ... GROUP BY l.id (the order of the
\* rows is left out)
AllLinksQuery(L, C) ==
    LET J == LeftJoin(L, C)
    IN  {[id |-> g,
          original_url |-> (CHOOSE r \in J : r.l.id = g).l.original_url,
          short_code |-> (CHOOSE r \in J : r.l.id = g).l.short_code,
          expiry_date |-> (CHOOSE r \in J : r.l.id = g).l.expiry_date,
          click_count |-> CountClickIds(J, g)] : g \in {r.l.id : r \in J}}

\* a variant of the next definition: >= instead of >
ExpiredAtOrOn(now, expiry) == now >= expiry

\* datetime.now() > datetime.strptime(expiry_date, ...)
ExpiredAt(now, expiry) == now > expiry

\* lines 150-157: the response for the fetched row (result is empty for None)
RedirectResponse(result, now) ==
    IF result = {} THEN Plain("redirect", "404")
    ELSE LET l == CHOOSE r \in result : TRUE
             e == l.expiry_date
         IN  IF e # EmptyStr /\ Strptime(e) = ValueError
             THEN Plain("redirect", "500")
             ELSE IF e # EmptyStr /\ ExpiredAt(now, Strptime(e))
             THEN Plain("redirect", "410")
             ELSE Outcome("redirect", "302", l.original_url, "", {}, {}, {})

\* ------------------------------------------------------------- handlers
\* GET /
index_get ==
    /\ pc = "serving"
    /\ last' = Plain("index_get", "200")
    /\ UNCHANGED <<pc, scheduler_running, tables_exist, utc, links, clicks,
                   sqlite_sequence, hist>>

\* POST / with form fields url and expiry_date (a request without one of the
\* two fields is rejected before the handler touches the store); code is what
\* generate_short_code() returns.  A UNIQUE violation raises IntegrityError
\* out of the handler: the transaction rolls back and the caller gets a 500
index_post(url, expiry, code) ==
    /\ pc = "serving"
    /\ sqlite_sequence.links < MaxLinks
    /\ IF UniqueViolation(links, code)
       THEN /\ last' = Plain("index_post", "500")
            /\ UNCHANGED <<links, sqlite_sequence, hist>>
       ELSE LET row == [id |-> sqlite_sequence.links + 1,
                        original_url |-> url,
                        short_code |-> code,
                        expiry_date |-> expiry]
            IN  /\ links' = InsertLink(links, row)
                /\ sqlite_sequence' =
                       [sqlite_sequence EXCEPT !.links = @ + 1]
                /\ last' = Outcome("index_post", "200", "", code, {}, {}, {})
                /\ hist' = hist @@ (row.id :>
                       [before |-> Cardinality(
                                     {c \in clicks : c.short_code = code}),
                        since |-> 0])
    /\ UNCHANGED <<pc, scheduler_running, tables_exist, utc, clicks>>

\* GET /<short_code>: the INSERT and the SELECT are one transaction, committed
\* before the expiry is looked at
redirect_to_original(code, ip) ==
    /\ pc = "serving"
    /\ sqlite_sequence.clicks < MaxClicks
    /\ LET result == SelectByCode(links, code)
           row == [id |-> sqlite_sequence.clicks + 1,
                   short_code |-> code,
                   ip_address |-> ip,
                   user_agent |-> UserAgent]
       IN  /\ IF ForeignKeys /\ result = {}
              THEN /\ last' = Plain("redirect", "500")
                   /\ UNCHANGED <<clicks, sqlite_sequence>>
              ELSE /\ clicks' = InsertClick(clicks, row)
                   /\ sqlite_sequence' =
                          [sqlite_sequence EXCEPT !.clicks = @ + 1]
                   /\ last' = RedirectResponse(result, LocalNow)
           /\ hist' = [i \in DOMAIN hist |->
                         IF \E l \in result : l.id = i
                         THEN [hist[i] EXCEPT !.since = @ + 1]
                         ELSE hist[i]]
    /\ UNCHANGED <<pc, scheduler_running, tables_exist, utc, links>>

\* GET /all-links
all_links ==
    /\ pc = "serving"
    /\ last' = Outcome("all_links", "200", "", "",
                       AllLinksQuery(links, clicks), {}, {})
    /\ UNCHANGED <<pc, scheduler_running, tables_exist, utc, links, clicks,
                   sqlite_sequence, hist>>

\* GET /click-details/<short_code>
click_details(code) ==
    /\ pc = "serving"
    /\ last' = Outcome("click_details", "200", "", "", {},
                       SelectByCode(links, code),
                       {c \in clicks : c.short_code = code})
    /\ UNCHANGED <<pc, scheduler_running, tables_exist, utc, links, clicks,
                   sqlite_sequence, hist>>

\* the scheduler's job.  The scheduler's thread runs it on its interval for as
\* long as the scheduler runs; the length of the interval in clock ticks is
\* left open, so a run can come at any time.  Without the tables the DELETE
\* raises OperationalError inside the job and nothing changes
delete_expired_links ==
    /\ scheduler_running
    /\ IF tables_exist
       THEN /\ links' = DeleteExpired(links, utc)
            /\ last' = Plain("sweep", "done")
            /\ hist' = [i \in {l.id : l \in links'} |-> hist[i]]
       ELSE /\ last' = Plain("sweep", "OperationalError")
            /\ UNCHANGED <<links, hist>>
    /\ UNCHANGED <<pc, scheduler_running, tables_exist, utc, clicks,
                   sqlite_sequence>>

Next ==
    \/ Tick
    \/ scheduler_start
    \/ init_db
    \/ scheduler_shutdown
    \/ index_get
    \/ \E url \in Urls, expiry \in ExpiryInputs, code \in generate_short_code :
          index_post(url, expiry, code)
    \/ \E code \in ShortCodes, ip \in Ips : redirect_to_original(code, ip)
    \/ all_links
    \/ \E code \in ShortCodes : click_details(code)
    \/ delete_expired_links

Spec == Init /\ [][Next]_vars
\* ============================================================== claims
\* the instant, in clock ticks, that the form text of day d, minute m denotes
InstantOf(d, m) == (d * MinPerDay + m) * SecPerMin

\* e is a timestamp of the form's pattern and denotes an instant before now
StrictlyBefore(e, now) ==
    \E d \in 0 .. 9, m \in Minutes : e = IsoMinute(d, m) /\ InstantOf(d, m) < now

\* e is a timestamp of the form's pattern and denotes now or a later instant
NotBefore(e, now) ==
    \E d \in 0 .. 9, m \in Minutes : e = IsoMinute(d, m) /\ now <= InstantOf(d, m)

ClicksOf(code) == {c \in clicks : c.short_code = code}

\* C1: a redirect request answers 404 when no link has the code, a redirect
\* to the link's original_url when the link has no expiry or now <= expiry,
\* and 410 when now > expiry.
C1_RedirectDecision ==
    [][\A code \in ShortCodes, ip \in Ips :
         redirect_to_original(code, ip) =>
           /\ (\A l \in links : l.short_code # code) => last'.status = "404"
           /\ \A l \in links :
                l.short_code = code =>
                  /\ (l.expiry_date = EmptyStr \/ NotBefore(l.expiry_date, LocalNow))
                        => /\ last'.status = "302"
                           /\ last'.location = l.original_url
                  /\ StrictlyBefore(l.expiry_date, LocalNow)
                        => last'.status = "410"]_vars

\* C1 witness: a redirect to a link whose expiry has passed was answered 410
\* while the link is still in the store
C1_Witness ==
    /\ last.op = "redirect"
    /\ last.status = "410"
    /\ \E l \in links : StrictlyBefore(l.expiry_date, utc)

\* C2: a link created with the expiry field left empty is never removed, and
\* every redirect to its code yields a redirect to its original_url.
C2_NoExpiryNeverRemoved ==
    [][/\ \A l \in links : l.expiry_date = EmptyStr => l \in links'
       /\ \A code \in ShortCodes, ip \in Ips :
            redirect_to_original(code, ip) =>
              \A l \in links :
                (l.short_code = code /\ l.expiry_date = EmptyStr)
                  => last'.status = "302" /\ last'.location = l.original_url]_vars

\* C3: after a completed sweep every link whose expiry is present and strictly
\* before now is gone, and every other link is still there, unchanged.
C3_SweepPostcondition ==
    [][(delete_expired_links /\ tables_exist) =>
         \A l \in links :
           IF StrictlyBefore(l.expiry_date, utc)
           THEN l \notin links'
           ELSE l \in links']_vars

\* C4: every redirect request inserts exactly one click row carrying the
\* requested code, whatever the outcome; a request for a code no link has is
\* answered 404, not an error.
C4_OneClickPerRedirect ==
    [][\A code \in ShortCodes, ip \in Ips :
         redirect_to_original(code, ip) =>
           /\ \E c \in clicks' :
                /\ c \notin clicks
                /\ clicks' = clicks \cup {c}
                /\ c.short_code = code
           /\ (\A l \in links : l.short_code # code) => last'.status = "404"]_vars

\* C4 witness: a redirect for a code that no link has ever had was answered
\* 404 and its click row is in the table
C4_Witness ==
    /\ last.op = "redirect"
    /\ last.status = "404"
    /\ sqlite_sequence.links = 0
    /\ clicks # {}

UniqueShortCodes ==
    \A l1 \in links, l2 \in links : l1.short_code = l2.short_code => l1 = l2

\* C5: no two links in the store have the same short_code; a creation request
\* whose generated code a stored link already has fails with an error, without
\* a short URL, and leaves the links table unchanged.
C5_UniqueCodes ==
    /\ []UniqueShortCodes
    /\ [][\A code \in generate_short_code :
            ((\E l \in links : l.short_code = code)
               /\ \E url \in Urls, expiry \in ExpiryInputs :
                    index_post(url, expiry, code))
              => /\ last'.status = "500"
                 /\ last'.short_url = ""
                 /\ links' = links]_vars

\* C5 witness: a creation request collided with a stored link and failed
C5_Witness ==
    /\ last.op = "index_post"
    /\ last.status = "500"
    /\ links # {}

\* C6: a link leaves the store, or changes, only in a sweep step; a redirect
\* request, also one answered 410, leaves the links table as it is.
C6_OnlySweepRemoves ==
    [][/\ (\E l \in links : l \notin links') => delete_expired_links
       /\ \A code \in ShortCodes, ip \in Ips :
            redirect_to_original(code, ip) => links' = links]_vars

\* C6 witness: an expired link has been requested, the answer was 410, and
\* the link's row is still in the store
C6_Witness ==
    /\ last.op = "redirect"
    /\ last.status = "410"
    /\ \E l \in links : hist[l.id].since > 0 /\ StrictlyBefore(l.expiry_date, utc)

\* C7: the scheduler is started, and sweeps run, only after init_db has
\* created the tables.
C7_SchedulerAfterInitDb ==
    (scheduler_running \/ last.op = "sweep") => tables_exist

\* C8: the all-links listing has exactly one entry per stored link, and the
\* entry's click_count is the number of click rows with the link's code.
C8_ListingCounts ==
    last.op = "all_links" =>
      /\ \A l \in links :
           /\ Cardinality({e \in last.listing : e.id = l.id}) = 1
           /\ \A e \in last.listing :
                e.id = l.id =>
                  /\ e.short_code = l.short_code
                  /\ e.original_url = l.original_url
                  /\ e.click_count = Cardinality(ClicksOf(l.short_code))
      /\ \A e \in last.listing : \E l \in links : l.id = e.id

\* C8 witness: a listing with an entry of no clicks and an entry with clicks
C8_Witness ==
    /\ last.op = "all_links"
    /\ \E e1 \in last.listing, e2 \in last.listing :
         e1.click_count = 0 /\ e2.click_count > 0

\* C9 as stated: the listed click_count of a link is the number of redirect
\* requests made to its code since it was created, whatever came before.
C9_CountIsRedirectsSinceCreation ==
    last.op = "all_links" =>
      \A e \in last.listing : e.click_count = hist[e.id].since

\* C9 amended: the listed click_count of a link is the number of redirect
\* requests made to its code since it was created plus the number of click
\* rows that already carried the code when it was created.
C9_CountIncludesEarlierClicks ==
    last.op = "all_links" =>
      \A e \in last.listing :
        e.click_count = hist[e.id].before + hist[e.id].since

\* C9 witness: a listed link whose code had click rows before it was created
\* and was requested after
C9_Witness ==
    /\ last.op = "all_links"
    /\ \E e \in last.listing : hist[e.id].before > 0 /\ hist[e.id].since > 0

\* C10: click rows are append-only: no step removes or changes a click row.
C10_ClicksAppendOnly == [][clicks \subseteq clicks']_vars

\* C10 witness: a sweep has emptied the links table, and click rows of every
\* code, so also of the removed links' codes, are still in the clicks table
C10_Witness ==
    /\ last.op = "sweep"
    /\ sqlite_sequence.links > 0
    /\ links = {}
    /\ \A code \in ShortCodes : ClicksOf(code) # {}
====
